---- MODULE Spec2Model ----
(***************************************************************************)
(* Model of book-padel.js: the single run of main() that logs in and then  *)
(* tries the preferred time slots on the next Wednesday and on the         *)
(* Wednesday after it.                                                     *)
(*                                                                         *)
(* A Date is a record [day, hour]: day is the local calendar day counted   *)
(* from a Sunday (day 0), so that getDay() is day % 7, and hour is the     *)
(* local hour of the day.  Minutes and seconds are never read by the code. *)
(* The web site, the browser and the file system are the environment:      *)
(* every awaited call on them either completes or throws, and what the     *)
(* site shows is chosen by the environment at the step that reads it.      *)
(***************************************************************************)
EXTENDS Integers, Sequences, FiniteSets

VARIABLES
    pc,               \* position of main() (and of the callee it awaits)
    now,              \* the wall clock, read by `new Date()` at line 340
    headless,         \* CONFIG.headless
    browser,          \* "none" | "open" | "closed"
    closeCalls,       \* number of browser.close() calls made
    pageUrl,          \* what page.url() reports: "blank" | "login" | "court-booking"
    loginState,       \* "pending" | "ok" | "threw"
    firstWednesday,   \* main's const firstWednesday (NoDate before line 340)
    secondWednesday,  \* main's const secondWednesday (NoDate before line 365)
    week,             \* 1: the loop of lines 346-360, 2: the loop of lines 370-384
    idx,              \* position of the for-of iterator in CONFIG.preferredTimes
    bookingSuccess,   \* main's let bookingSuccess
    attempts,         \* history: one record per tryBooking call, in call order
    errLog,           \* history: the per-candidate errors logged at 353 / 377
    noSlotLogged,     \* history: the line-388 message was logged
    error,            \* the error in flight ("none" when there is none)
    mainResult,       \* the promise main() returns: "running" | "resolved" | "rejected"
    exitCode          \* the exit code the process ends with once pc = "exited" (0 unless set)

vars == << pc, now, headless, browser, closeCalls, pageUrl, loginState,
           firstWednesday, secondWednesday, week, idx, bookingSuccess,
           attempts, errLog, noSlotLogged, error, mainResult, exitCode >>

----------------------------------------------------------------------------
(* Bounds and program constants *)

MaxStartDay == 6                      \* the clock starts on one of the days 0..MaxStartDay
Hours == 0 .. 23                      \* Date.getHours()
hoursPerDay == 24                     \* 24 * 60 * 60 * 1000 ms, in hours
wednesday == 3                        \* Wednesday is day 3 (0 = Sunday)
cutoffHour == 19                      \* "past 7 PM (19:00)"
daysPerWeek == 7
preferredTimes == << "19:00", "20:00" >>   \* CONFIG.preferredTimes

\* The local UTC offset may change by an hour between two instants (daylight
\* saving), so the local time 24 h after d:00 is (d+1):00 give or take one hour.
DstShifts == { -1, 0, 1 }

NoDate == [day |-> -1, hour |-> 0]

\* What is thrown: Playwright's TimeoutError (goto, waitForSelector,
\* waitForLoadState, click), the Error of line 190, an error of takeScreenshot
\* (mkdirSync or page.screenshot), an error of the browser itself.
ErrorKinds == { "TimeoutError", "LoginFailed", "ScreenshotFailed", "BrowserError" }

----------------------------------------------------------------------------
(* Pure functions *)

\* Date.prototype.getDay of a local date
getDay(date) == date.day % daysPerWeek

\* getNextWednesday with `currentHour > 19` in place of `>= 19`
getNextWednesdayLateCutoff(fromDate) ==
    LET currentDay == getDay(fromDate)
        d0 == wednesday - currentDay
        daysUntilWednesday ==
            IF d0 = 0
            THEN (IF fromDate.hour > cutoffHour THEN daysPerWeek ELSE 0)
            ELSE IF d0 < 0 THEN d0 + daysPerWeek ELSE d0
    IN  [day |-> fromDate.day + daysUntilWednesday, hour |-> fromDate.hour]

\* getNextWednesday without the `daysUntilWednesday += 7` branch
getNextWednesdayNoWrap(fromDate) ==
    LET currentDay == getDay(fromDate)
        d0 == wednesday - currentDay
        daysUntilWednesday ==
            IF d0 = 0
            THEN (IF fromDate.hour >= cutoffHour THEN daysPerWeek ELSE 0)
            ELSE d0
    IN  [day |-> fromDate.day + daysUntilWednesday, hour |-> fromDate.hour]

\* getNextWednesday that moves a late Wednesday to the next day, not the next week
getNextWednesdayTomorrow(fromDate) ==
    LET currentDay == getDay(fromDate)
        d0 == wednesday - currentDay
        daysUntilWednesday ==
            IF d0 = 0
            THEN (IF fromDate.hour >= cutoffHour THEN 1 ELSE 0)
            ELSE IF d0 < 0 THEN d0 + daysPerWeek ELSE d0
    IN  [day |-> fromDate.day + daysUntilWednesday, hour |-> fromDate.hour]

\* function getNextWednesday(fromDate): setDate keeps the time of day
getNextWednesday(fromDate) ==
    LET currentDay == getDay(fromDate)
        d0 == wednesday - currentDay
        daysUntilWednesday ==
            IF d0 = 0
            THEN (IF fromDate.hour >= cutoffHour THEN daysPerWeek ELSE 0)
            ELSE IF d0 < 0 THEN d0 + daysPerWeek ELSE d0
    IN  [day |-> fromDate.day + daysUntilWednesday, hour |-> fromDate.hour]

\* formatDate(date): the yyyy-mm-dd string names the calendar day and drops
\* the time of day; it is represented by the day number.
formatDate(date) == date.day

\* the argument of the second getNextWednesday call, with firstWednesday itself
\* in place of firstWednesday + 24 h
dayAfterOmitted(date, shift) == date

\* new Date(firstWednesday.getTime() + 24 * 60 * 60 * 1000), as a local date
\* when the local offset changed by `shift` hours in between
dayAfter(date, shift) ==
    LET total == date.day * hoursPerDay + date.hour + hoursPerDay + shift
    IN  [day |-> total \div hoursPerDay, hour |-> total % hoursPerDay]

\* currentUrl.includes("login")
stillOnLoginNever(url) == FALSE

stillOnLogin(url) == url = "login"

\* where control goes when a for-of loop over preferredTimes ends or breaks
afterLoop(w) == IF w = 1 THEN "after_first" ELSE "report"

\* the loop body without its `if (bookingSuccess) break`
afterAttemptNoBreak(success, w) == "loop"

\* `if (bookingSuccess) { break; }`, else the next iteration
afterAttempt(success, w) == IF success THEN afterLoop(w) ELSE "loop"

\* the handler without its process.exit(1)
exitCodeOfNoExit(result) == 0

\* main().catch(() => process.exit(1)); a process that just ends exits with 0
exitCodeOf(result) == IF result = "rejected" THEN 1 ELSE 0

----------------------------------------------------------------------------
(* State *)

mainVars == << firstWednesday, secondWednesday, week, idx, bookingSuccess >>
histVars == << attempts, errLog, noSlotLogged >>
envVars  == << now, headless >>
procVars == << mainResult, exitCode >>
brVars   == << browser, closeCalls >>

Init ==
    /\ pc = "launch"
    /\ now \in [day : 0 .. MaxStartDay, hour : Hours]
    /\ headless \in BOOLEAN
    /\ browser = "none"
    /\ closeCalls = 0
    /\ pageUrl = "blank"
    /\ loginState = "pending"
    /\ firstWednesday = NoDate
    /\ secondWednesday = NoDate
    /\ week = 1
    /\ idx = 1
    /\ bookingSuccess = FALSE
    /\ attempts = << >>
    /\ errLog = << >>
    /\ noSlotLogged = FALSE
    /\ error = "none"
    /\ mainResult = "running"
    /\ exitCode = 0

\* an error thrown inside main's try block, outside the inner try blocks
ThrowInTry(kind) ==
    /\ pc' = "catch"
    /\ error' = kind

\* an error thrown inside login(): it is not caught there and reaches main's try
ThrowInLogin(kind) ==
    /\ loginState' = "threw"
    /\ ThrowInTry(kind)

\* the date the current loop books for
targetDate == IF week = 1 THEN firstWednesday ELSE secondWednesday

\* the record of the tryBooking call in progress, completed
Settled(result, kind) ==
    [attempts EXCEPT ![Len(attempts)] = [@ EXCEPT !.result = result, !.error = kind]]

\* tryBooking returns v to `bookingSuccess = await tryBooking(...)`
Return(v) ==
    /\ attempts' = Settled(IF v THEN "true" ELSE "false", "none")
    /\ bookingSuccess' = v
    /\ pc' = afterAttempt(v, week)
    /\ idx' = IF pc' = "loop" THEN idx + 1 ELSE idx
    /\ UNCHANGED error

\* tryBooking throws: the assignment of line 348 / 372 does not happen and
\* control enters the catch block of line 352 / 376
ThrowInBooking(kind) ==
    /\ attempts' = Settled("threw", kind)
    /\ pc' = "inner_catch"
    /\ error' = kind
    /\ UNCHANGED << bookingSuccess, idx >>

----------------------------------------------------------------------------
(* main(), lines 316-404, one action per awaited stretch *)

\* chromium.launch(): outside the try block, so a throw rejects main directly
Launch ==
    /\ pc = "launch"
    /\ \/ /\ browser' = "open"
          /\ pc' = "new_page"
          /\ UNCHANGED << error, mainResult >>
       \/ /\ error' = "BrowserError"
          /\ mainResult' = "rejected"
          /\ pc' = "settled"
          /\ UNCHANGED browser
    /\ UNCHANGED << envVars, closeCalls, pageUrl, loginState, mainVars, histVars, exitCode >>

\* browser.newContext(), context.newPage()
NewPage ==
    /\ pc = "new_page"
    /\ \/ pc' = "login_nav" /\ UNCHANGED error
       \/ ThrowInTry("BrowserError")
    /\ UNCHANGED << envVars, brVars, pageUrl, loginState, mainVars, histVars, procVars >>

\* login(): goto the login page, cookie consent (its errors are swallowed),
\* wait for the form and type the credentials
LoginNavigate ==
    /\ pc = "login_nav"
    /\ \/ /\ pc' = "login_shot_before"
          /\ pageUrl' = "login"
          /\ UNCHANGED << error, loginState >>
       \/ /\ ThrowInLogin("TimeoutError")
          /\ pageUrl' \in { "blank", "login" }
    /\ UNCHANGED << envVars, brVars, mainVars, histVars, procVars >>

\* login(): await takeScreenshot(page, "before-login")
LoginShotBefore ==
    /\ pc = "login_shot_before"
    /\ \/ pc' = "login_submit" /\ UNCHANGED << error, loginState >>
       \/ ThrowInLogin("ScreenshotFailed")
    /\ UNCHANGED << envVars, brVars, pageUrl, mainVars, histVars, procVars >>

\* login(): click submit and wait for the load; the site either stays on the
\* login page or redirects to the returnUrl
LoginSubmit ==
    /\ pc = "login_submit"
    /\ pageUrl' \in { "login", "court-booking" }
    /\ \/ pc' = "login_shot_after" /\ UNCHANGED << error, loginState >>
       \/ ThrowInLogin("TimeoutError")
    /\ UNCHANGED << envVars, brVars, mainVars, histVars, procVars >>

\* login(): await takeScreenshot(page, "after-login")
LoginShotAfter ==
    /\ pc = "login_shot_after"
    /\ \/ pc' = "login_check" /\ UNCHANGED << error, loginState >>
       \/ ThrowInLogin("ScreenshotFailed")
    /\ UNCHANGED << envVars, brVars, pageUrl, mainVars, histVars, procVars >>

\* login(): the check of page.url()
LoginCheck ==
    /\ pc = "login_check"
    /\ IF stillOnLogin(pageUrl)
       THEN ThrowInLogin("LoginFailed")
       ELSE /\ loginState' = "ok"
            /\ pc' = "calc_first"
            /\ UNCHANGED error
    /\ UNCHANGED << envVars, brVars, pageUrl, mainVars, histVars, procVars >>

\* const firstWednesday = getNextWednesday(); let bookingSuccess = false
CalcFirst ==
    /\ pc = "calc_first"
    /\ firstWednesday' = getNextWednesday(now)
    /\ bookingSuccess' = FALSE
    /\ week' = 1
    /\ idx' = 1
    /\ pc' = "loop"
    /\ UNCHANGED << envVars, brVars, pageUrl, loginState, secondWednesday,
                    histVars, error, procVars >>

\* for (const timeSlot of CONFIG.preferredTimes): the loop ends, or tryBooking
\* is called with the next slot and navigates to the booking page
LoopNext ==
    /\ pc = "loop"
    /\ IF idx > Len(preferredTimes)
       THEN /\ pc' = afterLoop(week)
            /\ UNCHANGED << attempts, error, pageUrl >>
       ELSE LET call == [date   |-> formatDate(targetDate),
                         time   |-> preferredTimes[idx],
                         result |-> "pending",
                         error  |-> "none"]
            IN  /\ pageUrl' = "court-booking"
                /\ \/ /\ attempts' = Append(attempts, call)
                      /\ pc' = "tb_shot_page"
                      /\ UNCHANGED error
                   \/ /\ attempts' = Append(attempts,
                               [call EXCEPT !.result = "threw", !.error = "TimeoutError"])
                      /\ pc' = "inner_catch"
                      /\ error' = "TimeoutError"
    /\ UNCHANGED << envVars, brVars, loginState, mainVars, errLog, noSlotLogged, procVars >>

\* tryBooking: await takeScreenshot(page, `booking-page-...`)
TbShotPage ==
    /\ pc = "tb_shot_page"
    /\ \/ pc' = "tb_find_slot" /\ UNCHANGED << attempts, error, bookingSuccess, idx >>
       \/ ThrowInBooking("ScreenshotFailed")
    /\ UNCHANGED << envVars, brVars, pageUrl, loginState, firstWednesday, secondWednesday,
                    week, errLog, noSlotLogged, procVars >>

\* tryBooking: wait for the time slots, find the slot button; a missing or a
\* disabled button returns false, an available one is clicked
TbFindSlot ==
    /\ pc = "tb_find_slot"
    /\ \/ ThrowInBooking("TimeoutError")
       \/ \E slot \in { "absent", "disabled" } : Return(FALSE)
       \/ pc' = "tb_shot_selected" /\ UNCHANGED << attempts, error, bookingSuccess, idx >>
    /\ UNCHANGED << envVars, brVars, pageUrl, loginState, firstWednesday, secondWednesday,
                    week, errLog, noSlotLogged, procVars >>

\* tryBooking: await takeScreenshot(page, `after-selecting-slot-...`)
TbShotSelected ==
    /\ pc = "tb_shot_selected"
    /\ \/ pc' = "tb_confirm" /\ UNCHANGED << attempts, error, bookingSuccess, idx >>
       \/ ThrowInBooking("ScreenshotFailed")
    /\ UNCHANGED << envVars, brVars, pageUrl, loginState, firstWednesday, secondWednesday,
                    week, errLog, noSlotLogged, procVars >>

\* tryBooking: the confirmation buttons (errors swallowed by the try/catch of
\* lines 270-282), then await takeScreenshot(page, `booking-confirmation-...`)
TbConfirm ==
    /\ pc = "tb_confirm"
    /\ \/ pc' = "tb_final" /\ UNCHANGED << attempts, error, bookingSuccess, idx >>
       \/ ThrowInBooking("ScreenshotFailed")
    /\ UNCHANGED << envVars, brVars, pageUrl, loginState, firstWednesday, secondWednesday,
                    week, errLog, noSlotLogged, procVars >>

\* tryBooking: the final confirmation; every error of this stretch, that of the
\* final-confirmation screenshot included, is swallowed; return true
TbFinal ==
    /\ pc = "tb_final"
    /\ Return(TRUE)
    /\ UNCHANGED << envVars, brVars, pageUrl, loginState, firstWednesday, secondWednesday,
                    week, errLog, noSlotLogged, procVars >>

\* catch (error) { log(...); await takeScreenshot(page, `error-...`) }
InnerCatch ==
    /\ pc = "inner_catch"
    /\ errLog' = Append(errLog, [date  |-> formatDate(targetDate),
                                 time  |-> preferredTimes[idx],
                                 error |-> error])
    /\ \/ /\ error' = "none"
          /\ idx' = idx + 1
          /\ pc' = "loop"
       \/ /\ ThrowInTry("ScreenshotFailed")
          /\ UNCHANGED idx
    /\ UNCHANGED << envVars, brVars, pageUrl, loginState, firstWednesday, secondWednesday,
                    week, bookingSuccess, attempts, noSlotLogged, procVars >>

\* if (!bookingSuccess) { secondWednesday = getNextWednesday(first + 24 h) ... }
AfterFirst ==
    /\ pc = "after_first"
    /\ IF ~bookingSuccess
       THEN /\ \E shift \in DstShifts :
                  secondWednesday' = getNextWednesday(dayAfter(firstWednesday, shift))
            /\ week' = 2
            /\ idx' = 1
            /\ pc' = "loop"
       ELSE /\ pc' = "report"
            /\ UNCHANGED << secondWednesday, week, idx >>
    /\ UNCHANGED << envVars, brVars, pageUrl, loginState, firstWednesday, bookingSuccess,
                    histVars, error, procVars >>

\* if (!bookingSuccess) log("No available slots found for the next two Wednesdays")
Report ==
    /\ pc = "report"
    /\ noSlotLogged' = ~bookingSuccess
    /\ pc' = "linger"
    /\ UNCHANGED << envVars, brVars, pageUrl, loginState, mainVars, attempts, errLog,
                    error, procVars >>

\* if (!CONFIG.headless) await page.waitForTimeout(5000)
Linger ==
    /\ pc = "linger"
    /\ \/ pc' = "finally" /\ UNCHANGED error
       \/ ~headless /\ ThrowInTry("BrowserError")
    /\ UNCHANGED << envVars, brVars, pageUrl, loginState, mainVars, histVars, procVars >>

\* the outer catch block leaving main at once, as with browser.close() at the
\* end of the try block in place of a finally block
OuterCatchNoFinally ==
    /\ pc = "catch"
    /\ pc' = "settled"
    /\ mainResult' = "rejected"
    /\ UNCHANGED << envVars, brVars, pageUrl, loginState, mainVars, histVars, error, exitCode >>

\* catch (error) { log; console.error; throw error }
OuterCatch ==
    /\ pc = "catch"
    /\ pc' = "finally"
    /\ UNCHANGED << envVars, brVars, pageUrl, loginState, mainVars, histVars, error, procVars >>

\* finally { await browser.close(); log(...) }: main's promise settles
Finally ==
    /\ pc = "finally"
    /\ closeCalls' = closeCalls + 1
    /\ \/ /\ browser' = "closed"
          /\ mainResult' = IF error = "none" THEN "resolved" ELSE "rejected"
          /\ UNCHANGED error
       \/ /\ error' = "BrowserError"
          /\ mainResult' = "rejected"
          /\ UNCHANGED browser
    /\ pc' = "settled"
    /\ UNCHANGED << envVars, pageUrl, loginState, mainVars, histVars, exitCode >>

\* main().catch(... process.exit(1)), or the process ends by itself
Exit ==
    /\ pc = "settled"
    /\ exitCode' = exitCodeOf(mainResult)
    /\ pc' = "exited"
    /\ UNCHANGED << envVars, brVars, pageUrl, loginState, mainVars, histVars, error, mainResult >>

Next ==
    \/ Launch
    \/ NewPage
    \/ LoginNavigate
    \/ LoginShotBefore
    \/ LoginSubmit
    \/ LoginShotAfter
    \/ LoginCheck
    \/ CalcFirst
    \/ LoopNext
    \/ TbShotPage
    \/ TbFindSlot
    \/ TbShotSelected
    \/ TbConfirm
    \/ TbFinal
    \/ InnerCatch
    \/ AfterFirst
    \/ Report
    \/ Linger
    \/ OuterCatch
    \/ Finally
    \/ Exit

Spec == Init /\ [][Next]_vars

\* main is one sequential async function: every awaited call settles (the page
\* calls carry timeouts, the pauses are finite), so a run never stops half way
\* The hour of the clock is only ever compared with cutoffHour, so the hours on
\* both sides of the cutoff stand for all of them where the dates are not at stake.
CutoffHours == { cutoffHour - 1, cutoffHour }

InitAtCutoff == Init /\ now.hour \in CutoffHours

FairSpec == InitAtCutoff /\ [][Next]_vars /\ WF_vars(Next)

----------------------------------------------------------------------------
(* Properties *)

Exited == pc = "exited"
NumTimes == Len(preferredTimes)
Attempted == 1 .. Len(attempts)
NoSuccess == \A i \in Attempted : attempts[i].result # "true"

\* C1: in a finished run where login succeeded and no tryBooking call returned
\* true, main made exactly 2 x |preferredTimes| tryBooking calls: every
\* preferred time in order on the first target Wednesday, then every preferred
\* time in the same order on the date 7 calendar days later.
C1_AllCandidatesInOrder ==
    (Exited /\ loginState = "ok" /\ NoSuccess) =>
        /\ Len(attempts) = 2 * NumTimes
        /\ \A i \in 1 .. NumTimes :
              /\ attempts[i].date = firstWednesday.day
              /\ attempts[i].time = preferredTimes[i]
              /\ attempts[NumTimes + i].date = firstWednesday.day + 7
              /\ attempts[NumTimes + i].time = preferredTimes[i]

\* C2: once a tryBooking call has returned true no further tryBooking call is
\* made (the successful call stays the last one, on either date) and the
\* "No available slots" message is not logged.
C2_StopsAtFirstSuccess ==
    \A i \in Attempted :
        attempts[i].result = "true" => (i = Len(attempts) /\ ~noSlotLogged)

C2_Witness ==
    /\ Exited
    /\ Len(attempts) = 1
    /\ attempts[1].result = "true"
    /\ attempts[1].time = "19:00"
    /\ bookingSuccess
    /\ ~noSlotLogged

\* C3: when now is a Wednesday, the first target date is today for every hour
\* before 19 and the date exactly 7 days later for every hour from 19 on.
C3_WednesdayCutoff ==
    (firstWednesday # NoDate /\ now.day % 7 = 3) =>
        IF now.hour < 19
        THEN firstWednesday.day = now.day
        ELSE firstWednesday.day = now.day + 7

C3_Witness ==
    /\ firstWednesday # NoDate
    /\ now.day % 7 = 3
    /\ now.hour = 19
    /\ firstWednesday.day = now.day + 7

\* C4: when now is not a Wednesday, the first target date is the first
\* Wednesday strictly after now: 1 to 6 calendar days ahead, with Thursday,
\* Friday and Saturday wrapping into the following week.
C4_NextWednesdayStrictlyAfter ==
    (firstWednesday # NoDate /\ now.day % 7 # 3) =>
        LET ahead == firstWednesday.day - now.day
        IN  /\ ahead \in 1 .. 6
            /\ firstWednesday.day % 7 = 3
            /\ now.day % 7 > 3 => ahead = 10 - (now.day % 7)
            /\ now.day % 7 < 3 => ahead = 3 - (now.day % 7)

C4_Witness ==
    /\ firstWednesday # NoDate
    /\ now.day % 7 = 4
    /\ firstWednesday.day = now.day + 6

\* C5: every date getNextWednesday returns is a Wednesday: the first target
\* date, for every weekday and hour of now, and the second target date that
\* main derives from firstWednesday + 24 hours.
C5_AlwaysWednesday ==
    /\ firstWednesday # NoDate => firstWednesday.day % 7 = 3
    /\ secondWednesday # NoDate => secondWednesday.day % 7 = 3

\* now is Wednesday 00:xx and the clock was set back an hour during the day, so
\* firstWednesday + 24 h is still that Wednesday, at 23:xx
C5_Witness ==
    /\ secondWednesday # NoDate
    /\ now.day % 7 = 3
    /\ now.hour = 0
    /\ firstWednesday.day = now.day
    /\ secondWednesday.hour = 23
    /\ secondWednesday.day = now.day + 7
    /\ secondWednesday.day % 7 = 3

\* C6: a tryBooking call that throws is caught and logged and the run goes on
\* with the next candidate: in a finished run every candidate after a failed
\* one, those of the following Wednesday included, was attempted.
C6_FailureFallsThrough ==
    Exited =>
        \A i \in Attempted :
            attempts[i].result = "threw" =>
                /\ \E k \in 1 .. Len(errLog) :
                      /\ errLog[k].date = attempts[i].date
                      /\ errLog[k].time = attempts[i].time
                /\ i < 2 * NumTimes => Len(attempts) > i

\* C7: a login failure is fatal: after login threw no tryBooking call is ever
\* made and main's promise rejects; and login never returns normally while the
\* page URL still contains "login".
C7_LoginFailureIsFatal ==
    /\ loginState = "threw" =>
          /\ attempts = << >>
          /\ firstWednesday = NoDate
          /\ pc \in { "catch", "finally", "settled", "exited" }
          /\ error # "none"
          /\ pc \in { "settled", "exited" } => mainResult = "rejected"
    /\ pc = "calc_first" => (loginState = "ok" /\ pageUrl # "login")

C7_Witness ==
    /\ Exited
    /\ loginState = "threw"
    /\ pageUrl = "login"
    /\ error = "LoginFailed"
    /\ attempts = << >>
    /\ mainResult = "rejected"

\* C8: the exit code is 1 exactly when an error escaped main (its promise
\* rejected) and 0 on every normal completion, the run that tried every
\* candidate and found no slot included.
C8_ExitCode ==
    Exited =>
        /\ exitCode \in { 0, 1 }
        /\ exitCode = 1 <=> mainResult = "rejected"
        /\ exitCode = 1 <=> error # "none"
        /\ (noSlotLogged /\ error = "none") => exitCode = 0

C8_Witness ==
    /\ Exited
    /\ Len(attempts) = 2 * NumTimes
    /\ NoSuccess
    /\ noSlotLogged
    /\ mainResult = "resolved"
    /\ exitCode = 0

\* C9: a takeScreenshot call that fails never affects control flow: its error
\* is never the error that login, tryBooking or main fails with.
C9_ScreenshotNeverAffectsControlFlow ==
    /\ error # "ScreenshotFailed"
    /\ \A i \in Attempted : attempts[i].error # "ScreenshotFailed"

\* C10: no candidate is retried: the (date, time) pairs passed to tryBooking in
\* one run are pairwise different, whatever each call returned or threw.
C10_NoRetry ==
    \A i, j \in Attempted :
        i # j => << attempts[i].date, attempts[i].time >>
                   # << attempts[j].date, attempts[j].time >>

C10_Witness ==
    /\ Exited
    /\ now.day % 7 = 3
    /\ now.hour < 19
    /\ Len(attempts) = 2 * NumTimes
    /\ attempts[1].result = "threw"
    /\ attempts[2].result = "false"
    /\ attempts[3].result = "threw"
    /\ attempts[4].result = "true"

\* what holds of browser.close() in every state: it is called at most once,
\* only after a launch, nothing of the run (page action, tryBooking call) follows
\* it, and main never settles with a launched browser it did not close
ClosedAtMostOnceAndLast ==
    /\ closeCalls \in { 0, 1 }
    /\ closeCalls = 1 => (browser # "none" /\ pc \in { "settled", "exited" })
    /\ (browser # "none" /\ pc \in { "settled", "exited" }) => closeCalls = 1

\* C11: once the browser has been launched, browser.close() is eventually
\* called, exactly once, on every path through main (success, no slot found,
\* login failure, any other error in the try block), and no page action
\* happens after the call.
C11_BrowserClosedOnce ==
    /\ []ClosedAtMostOnceAndLast
    /\ (browser = "open" /\ closeCalls = 0) ~> (closeCalls = 1)

C11_Witness ==
    /\ Exited
    /\ loginState = "threw"
    /\ error = "LoginFailed"
    /\ browser = "closed"
    /\ closeCalls = 1

====
